---- MODULE Spec2Model ----
(***************************************************************************)
(* Model of googletest/src/matchers/pointwise_matcher.rs:                  *)
(* PointwiseMatcher { matchers } with its Matcher implementation           *)
(* (matches, explain_match, describe), driven over the ZippedIterator      *)
(* returned by zipped_iterator::zip.                                       *)
(*                                                                         *)
(* Text is modelled as a sequence of string tokens whose concatenation is  *)
(* the Rust String; numbers are formatted digit by digit.                  *)
(* Option<T> is modelled as a sequence: <<>> is None, <<x>> is Some(x).    *)
(* An iterator is modelled by the sequence of elements it has not yet      *)
(* produced.                                                               *)
(***************************************************************************)
EXTENDS Integers, Sequences, FiniteSets, TLC

\* Bounds of the model
MaxVal == 1
MaxP == 3
MaxO == 3
HistMaxLen == 1
CallsSeen == 2

Values == 0..MaxVal

SeqsUpTo(S, n) == UNION {[1..k -> S] : k \in 0..n}

Min(a, b) == IF a < b THEN a ELSE b

(***************************************************************************)
(* Element matchers: the tests build the list with eq and lt.              *)
(***************************************************************************)
ElementMatchers == [kind : {"eq", "lt"}, arg : Values]

ElemMatches(m, v) ==
    IF m.kind = "eq"
    THEN (IF v = m.arg THEN "Matches" ELSE "DoesNotMatch")
    ELSE (IF v < m.arg THEN "Matches" ELSE "DoesNotMatch")

Digit == <<"0", "1", "2", "3", "4", "5", "6", "7", "8", "9">>

RECURSIVE Format(_)
Format(n) ==
    IF n < 10 THEN <<Digit[n + 1]>>
    ELSE Format(n \div 10) \o <<Digit[(n % 10) + 1]>>

ElemDescribe(m, matcher_result) ==
    IF m.kind = "eq"
    THEN <<(IF matcher_result = "Matches" THEN "is equal to " ELSE "isn't equal to ")>>
         \o Format(m.arg)
    ELSE <<(IF matcher_result = "Matches" THEN "is less than "
            ELSE "is greater than or equal to ")>>
         \o Format(m.arg)

ElemExplain(m, v) == <<"which ">> \o ElemDescribe(m, ElemMatches(m, v))

(***************************************************************************)
(* zipped_iterator: zip, ZippedIterator::next, has_size_mismatch,          *)
(* left_size.                                                              *)
(***************************************************************************)
zip(left, right) ==
    [left |-> left, right |-> right,
     has_size_mismatch |-> FALSE, consumed_elements |-> 0]

ZipNext(z) ==
    CASE z.left # <<>> /\ z.right # <<>> ->
           [item |-> << <<Head(z.left), Head(z.right)>> >>,
            z |-> [left |-> Tail(z.left), right |-> Tail(z.right),
                   has_size_mismatch |-> z.has_size_mismatch,
                   consumed_elements |-> z.consumed_elements + 1]]
      [] z.left # <<>> /\ z.right = <<>> ->
           [item |-> <<>>,
            z |-> [left |-> Tail(z.left), right |-> <<>>,
                   has_size_mismatch |-> TRUE,
                   consumed_elements |-> z.consumed_elements + 1]]
      [] z.left = <<>> /\ z.right # <<>> ->
           [item |-> <<>>,
            z |-> [left |-> <<>>, right |-> Tail(z.right),
                   has_size_mismatch |-> TRUE,
                   consumed_elements |-> z.consumed_elements]]
      [] OTHER -> [item |-> <<>>, z |-> z]

has_size_mismatch(z) == z.has_size_mismatch

left_size(z) == z.consumed_elements + Len(z.left)

(***************************************************************************)
(* Description: bullet_list().indent() and enumerate().indent()            *)
(***************************************************************************)
RECURSIVE BulletLines(_)
BulletLines(elements) ==
    IF elements = <<>> THEN <<>>
    ELSE <<"  ", "* ">> \o Head(elements)
         \o (IF Tail(elements) = <<>> THEN <<>> ELSE <<"\n">>)
         \o BulletLines(Tail(elements))

RECURSIVE EnumerateLines(_, _)
EnumerateLines(elements, n) ==
    IF elements = <<>> THEN <<>>
    ELSE <<"  ">> \o Format(n) \o <<". ">> \o Head(elements)
         \o (IF Tail(elements) = <<>> THEN <<>> ELSE <<"\n">>)
         \o EnumerateLines(Tail(elements), n + 1)

(***************************************************************************)
(* PointwiseMatcher::matches                                               *)
(* yielded records the pairs the for loop took from the walker; the loop   *)
(* body evaluates the predicate of each pair before it asks for the next.  *)
(***************************************************************************)
RECURSIVE MatchesLoopNoShortCircuit(_, _)
MatchesLoopNoShortCircuit(z, yielded_so_far) ==
    LET n == ZipNext(z) IN
    IF n.item = <<>>
    THEN [ret |-> (IF \E j \in 1..Len(yielded_so_far) :
                         ElemMatches(yielded_so_far[j][2], yielded_so_far[j][1])
                           = "DoesNotMatch"
                   THEN <<"DoesNotMatch">> ELSE <<>>),
          z |-> n.z, yielded |-> yielded_so_far]
    ELSE MatchesLoopNoShortCircuit(n.z, Append(yielded_so_far, n.item[1]))

RECURSIVE MatchesLoop(_, _)
MatchesLoop(z, yielded_so_far) ==
    LET n == ZipNext(z) IN
    IF n.item = <<>>
    THEN [ret |-> <<>>, z |-> n.z, yielded |-> yielded_so_far]
    ELSE LET element == n.item[1][1]
             matcher == n.item[1][2]
         IN IF ElemMatches(matcher, element) = "DoesNotMatch"
            THEN [ret |-> <<"DoesNotMatch">>, z |-> n.z,
                  yielded |-> Append(yielded_so_far, n.item[1])]
            ELSE MatchesLoop(n.z, Append(yielded_so_far, n.item[1]))

matchesNoSizeCheck(self_matchers, act) ==
    LET run == MatchesLoop(zip(act, self_matchers), <<>>) IN
    IF run.ret # <<>>
    THEN [result |-> run.ret[1], z |-> run.z, yielded |-> run.yielded,
          flag_read |-> FALSE]
    ELSE [result |-> "Matches", z |-> run.z, yielded |-> run.yielded,
          flag_read |-> TRUE]

matches(self_matchers, act) ==
    LET run == MatchesLoop(zip(act, self_matchers), <<>>) IN
    IF run.ret # <<>>
    THEN [result |-> run.ret[1], z |-> run.z, yielded |-> run.yielded,
          flag_read |-> FALSE]
    ELSE [result |-> (IF has_size_mismatch(run.z) THEN "DoesNotMatch" ELSE "Matches"),
          z |-> run.z, yielded |-> run.yielded, flag_read |-> TRUE]

(***************************************************************************)
(* PointwiseMatcher::explain_match                                         *)
(***************************************************************************)
MismatchEntryOneBased(idx, a, e) ==
    <<"element #">> \o Format(idx + 1) \o <<" is ">> \o Format(a) \o <<", ">>
    \o ElemExplain(e, a)

MismatchEntry(idx, a, e) ==
    <<"element #">> \o Format(idx) \o <<" is ">> \o Format(a) \o <<", ">>
    \o ElemExplain(e, a)

\* Stops at the first mismatch, as matches does.
RECURSIVE ExplainLoopFirstOnly(_, _, _, _)
ExplainLoopFirstOnly(z, idx, mismatches, yielded_so_far) ==
    LET n == ZipNext(z) IN
    IF n.item = <<>>
    THEN [z |-> n.z, mismatches |-> mismatches, yielded |-> yielded_so_far]
    ELSE LET a == n.item[1][1]
             e == n.item[1][2]
         IN IF ElemMatches(e, a) = "DoesNotMatch"
            THEN [z |-> n.z,
                  mismatches |-> Append(mismatches, MismatchEntry(idx, a, e)),
                  yielded |-> Append(yielded_so_far, n.item[1])]
            ELSE ExplainLoopFirstOnly(n.z, idx + 1, mismatches,
                                      Append(yielded_so_far, n.item[1]))

\* Stops as soon as either side is exhausted, without the walker's last advance.
RECURSIVE ExplainLoopNoProbe(_, _, _, _)
ExplainLoopNoProbe(z, idx, mismatches, yielded_so_far) ==
    IF z.left = <<>> \/ z.right = <<>>
    THEN [z |-> z, mismatches |-> mismatches, yielded |-> yielded_so_far]
    ELSE LET n == ZipNext(z)
             a == n.item[1][1]
             e == n.item[1][2]
         IN ExplainLoopNoProbe(n.z, idx + 1,
                               (IF ElemMatches(e, a) = "DoesNotMatch"
                                THEN Append(mismatches, MismatchEntry(idx, a, e))
                                ELSE mismatches),
                               Append(yielded_so_far, n.item[1]))

RECURSIVE ExplainLoop(_, _, _, _)
ExplainLoop(z, idx, mismatches, yielded_so_far) ==
    LET n == ZipNext(z) IN
    IF n.item = <<>>
    THEN [z |-> n.z, mismatches |-> mismatches, yielded |-> yielded_so_far]
    ELSE LET a == n.item[1][1]
             e == n.item[1][2]
         IN ExplainLoop(n.z, idx + 1,
                        (IF ElemMatches(e, a) = "DoesNotMatch"
                         THEN Append(mismatches, MismatchEntry(idx, a, e))
                         ELSE mismatches),
                        Append(yielded_so_far, n.item[1]))

\* The size arguments of the format string exchanged.
ExplanationSwappedSizes(mismatches, z, self_matchers) ==
    IF mismatches = <<>>
    THEN (IF ~has_size_mismatch(z)
          THEN <<"which matches all elements">>
          ELSE <<"which has size ">> \o Format(Len(self_matchers))
               \o <<" (expected ">> \o Format(left_size(z)) \o <<")">>)
    ELSE IF Len(mismatches) = 1
    THEN <<"where ">> \o mismatches[1]
    ELSE <<"where:\n">> \o BulletLines(mismatches)

\* The size mismatch tested before the content mismatches.
ExplanationSizeFirst(mismatches, z, self_matchers) ==
    IF has_size_mismatch(z)
    THEN <<"which has size ">> \o Format(left_size(z))
         \o <<" (expected ">> \o Format(Len(self_matchers)) \o <<")">>
    ELSE IF mismatches = <<>>
    THEN <<"which matches all elements">>
    ELSE IF Len(mismatches) = 1
    THEN <<"where ">> \o mismatches[1]
    ELSE <<"where:\n">> \o BulletLines(mismatches)

\* has_size_mismatch() not consulted.
ExplanationIgnoresSize(mismatches, z, self_matchers) ==
    IF mismatches = <<>>
    THEN <<"which matches all elements">>
    ELSE IF Len(mismatches) = 1
    THEN <<"where ">> \o mismatches[1]
    ELSE <<"where:\n">> \o BulletLines(mismatches)

Explanation(mismatches, z, self_matchers) ==
    IF mismatches = <<>>
    THEN (IF ~has_size_mismatch(z)
          THEN <<"which matches all elements">>
          ELSE <<"which has size ">> \o Format(left_size(z))
               \o <<" (expected ">> \o Format(Len(self_matchers)) \o <<")">>)
    ELSE IF Len(mismatches) = 1
    THEN <<"where ">> \o mismatches[1]
    ELSE <<"where:\n">> \o BulletLines(mismatches)

explain_match(self_matchers, act) ==
    LET run == ExplainLoop(zip(act, self_matchers), 0, <<>>, <<>>) IN
    [result |-> Explanation(run.mismatches, run.z, self_matchers),
     z |-> run.z, yielded |-> run.yielded, flag_read |-> TRUE]

(***************************************************************************)
(* PointwiseMatcher::describe                                              *)
(***************************************************************************)
Pick(matcher_result, a, b) == IF matcher_result = "Matches" THEN a ELSE b

\* The matcher's own polarity handed down to the element.
ElementDescriptionPolar(m, matcher_result) == ElemDescribe(m, matcher_result)

ElementDescription(m, matcher_result) == ElemDescribe(m, "Matches")

describe(self_matchers, matcher_result) ==
    <<Pick(matcher_result, "has", "doesn't have"),
      " elements satisfying respectively:\n">>
    \o EnumerateLines([i \in 1..Len(self_matchers) |->
                          ElementDescription(self_matchers[i], matcher_result)], 0)

(***************************************************************************)
(* State                                                                   *)
(***************************************************************************)
VARIABLES
    matchers,          \* PointwiseMatcher.matchers
    op,                \* the method that has just returned, "idle" between calls
    actual,            \* its container argument
    polarity,          \* describe's matcher_result argument
    result,            \* its return value
    zipped_iterator,   \* the call's local walker, as the call left it
    yielded,           \* the pairs the walker produced in the last call
    flag_read,         \* whether the last call read has_size_mismatch()
    memo               \* the first completed call of the behaviour (history)

vars == <<matchers, op, actual, polarity, result, zipped_iterator, yielded,
          flag_read, memo>>

Inputs == SeqsUpTo(Values, MaxO)
HistInputs == SeqsUpTo(Values, HistMaxLen)
Polarities == {"Matches", "DoesNotMatch"}

new(ms) ==
    /\ matchers = ms
    /\ op = "idle"
    /\ actual = <<>>
    /\ polarity = "None"
    /\ result = "None"
    /\ zipped_iterator = zip(<<>>, <<>>)
    /\ yielded = <<>>
    /\ flag_read = FALSE
    /\ memo = [op |-> "None"]

Init == \E ms \in SeqsUpTo(ElementMatchers, MaxP) : new(ms)

InitHist == \E ms \in SeqsUpTo(ElementMatchers, HistMaxLen) : new(ms)

\* The walk consumes the predicate list itself instead of borrowing it.
CallMatchesDraining(O) ==
    LET r == matches(matchers, O) IN
    /\ op = "idle"
    /\ op' = "matches"
    /\ actual' = O
    /\ polarity' = "None"
    /\ result' = r.result
    /\ zipped_iterator' = r.z
    /\ yielded' = r.yielded
    /\ flag_read' = r.flag_read
    /\ matchers' = r.z.right

CallMatches(O) ==
    LET r == matches(matchers, O) IN
    /\ op = "idle"
    /\ op' = "matches"
    /\ actual' = O
    /\ polarity' = "None"
    /\ result' = r.result
    /\ zipped_iterator' = r.z
    /\ yielded' = r.yielded
    /\ flag_read' = r.flag_read
    /\ UNCHANGED matchers

CallExplainMatch(O) ==
    LET r == explain_match(matchers, O) IN
    /\ op = "idle"
    /\ op' = "explain_match"
    /\ actual' = O
    /\ polarity' = "None"
    /\ result' = r.result
    /\ zipped_iterator' = r.z
    /\ yielded' = r.yielded
    /\ flag_read' = r.flag_read
    /\ UNCHANGED matchers

CallDescribe(matcher_result) ==
    /\ op = "idle"
    /\ op' = "describe"
    /\ actual' = <<>>
    /\ polarity' = matcher_result
    /\ result' = describe(matchers, matcher_result)
    /\ yielded' = <<>>
    /\ flag_read' = FALSE
    /\ UNCHANGED <<matchers, zipped_iterator>>

\* The caller takes the result; the call's locals go out of scope.
Return ==
    /\ op # "idle"
    /\ op' = "idle"
    /\ actual' = <<>>
    /\ polarity' = "None"
    /\ result' = "None"
    /\ zipped_iterator' = zip(<<>>, <<>>)
    /\ yielded' = <<>>
    /\ flag_read' = FALSE
    /\ UNCHANGED matchers

Next ==
    /\ \/ \E O \in Inputs : CallMatches(O)
       \/ \E O \in Inputs : CallExplainMatch(O)
       \/ \E p \in Polarities : CallDescribe(p)
       \/ Return
    /\ UNCHANGED memo

Spec == Init /\ [][Next]_vars

\* History: the first completed call is remembered, with the number of calls
\* completed after it (counted up to CallsSeen).
Remember ==
    memo' = IF op' = "idle" THEN memo
            ELSE IF memo.op = "None"
            THEN [op |-> op', actual |-> actual', polarity |-> polarity',
                  result |-> result', later |-> 0]
            ELSE [memo EXCEPT !.later = Min(CallsSeen, @ + 1)]

NextHist ==
    /\ \/ \E O \in HistInputs : CallMatches(O)
       \/ \E O \in HistInputs : CallExplainMatch(O)
       \/ \E p \in Polarities : CallDescribe(p)
       \/ Return
    /\ Remember

SpecHist == InitHist /\ [][NextHist]_vars

(***************************************************************************)
(* Properties                                                              *)
(***************************************************************************)
Overlap == Min(Len(actual), Len(matchers))

\* The overlapping positions (1-based) whose predicate rejects its element.
Failing == {i \in 1..Overlap : ElemMatches(matchers[i], actual[i]) = "DoesNotMatch"}

RECURSIVE Ascending(_)
Ascending(S) ==
    IF S = {} THEN <<>>
    ELSE LET m == CHOOSE x \in S : \A y \in S : x <= y
         IN <<m>> \o Ascending(S \ {m})

AllElementsText == <<"which matches all elements">>

SizeText(n, m) ==
    <<"which has size ">> \o Format(n) \o <<" (expected ">> \o Format(m) \o <<")">>

\* "element #i is O[i], <explanation of P[i] for O[i]>" for the 1-based position i
EntryAt(i) ==
    <<"element #">> \o Format(i - 1) \o <<" is ">> \o Format(actual[i]) \o <<", ">>
    \o ElemExplain(matchers[i], actual[i])

RECURSIVE BulletsFor(_)
BulletsFor(positions) ==
    IF positions = <<>> THEN <<>>
    ELSE <<"  ", "* ">> \o EntryAt(Head(positions))
         \o (IF Len(positions) = 1 THEN <<>> ELSE <<"\n">>)
         \o BulletsFor(Tail(positions))

RECURSIVE NumberedFrom(_)
NumberedFrom(i) ==
    IF i > Len(matchers) THEN <<>>
    ELSE <<"  ">> \o Format(i - 1) \o <<". ">> \o ElemDescribe(matchers[i], "Matches")
         \o (IF i = Len(matchers) THEN <<>> ELSE <<"\n">>)
         \o NumberedFrom(i + 1)

\* C1: matches(O) returns Matches iff len(O) = len(P) and every P[i] matches
\* O[i]; in every other case it returns DoesNotMatch.
C1_MatchesIff ==
    op = "matches" =>
      result = IF /\ Len(actual) = Len(matchers)
                  /\ \A i \in 1..Len(matchers) :
                        ElemMatches(matchers[i], actual[i]) = "Matches"
               THEN "Matches" ELSE "DoesNotMatch"

C1_Witness ==
    /\ op = "matches"
    /\ result = "Matches"
    /\ Len(actual) = 2
    /\ matchers[1].kind = "lt"

\* C2: with different lengths and every overlapping position satisfied,
\* explain_match(O) is exactly "which has size n (expected m)" with n = len(O)
\* and m = len(P).
C2_SizeMismatchText ==
    (op = "explain_match" /\ Len(actual) # Len(matchers) /\ Failing = {}) =>
      result = SizeText(Len(actual), Len(matchers))

C2_Witness ==
    /\ op = "explain_match"
    /\ Len(matchers) = 1
    /\ Len(actual) = 3
    /\ Failing = {}
    /\ result[1] = "which has size "

\* C3: with exactly one failing overlapping position i, explain_match(O) is
\* the single line "where element #i is O[i], P[i].explain_match(O[i])".
C3_SingleMismatchText ==
    (op = "explain_match" /\ Cardinality(Failing) = 1) =>
      result = <<"where ">> \o EntryAt(CHOOSE i \in Failing : TRUE)

C3_Witness ==
    /\ op = "explain_match"
    /\ Failing = {2}
    /\ Len(actual) = 3
    /\ result[1] = "where "

\* C4: with two or more failing overlapping positions, explain_match(O) is
\* "where:" followed by one bullet per failing position, all of them, in
\* ascending index order, each with its own index and value.
C4_BulletPerMismatch ==
    (op = "explain_match" /\ Cardinality(Failing) >= 2) =>
      result = <<"where:\n">> \o BulletsFor(Ascending(Failing))

C4_Witness ==
    /\ op = "explain_match"
    /\ Failing = {1, 3}
    /\ result[1] = "where:\n"

\* C5: when a content mismatch and a length mismatch occur together, only the
\* content mismatches are reported; "which has size" appears only when there
\* is no content mismatch.
C5_ContentBeforeSize ==
    op = "explain_match" =>
      /\ (Failing # {} /\ Len(actual) # Len(matchers)) =>
            /\ result[1] \in {"where ", "where:\n"}
            /\ \A k \in 1..Len(result) : result[k] # "which has size "
      /\ (\E k \in 1..Len(result) : result[k] = "which has size ") => Failing = {}

C5_Witness ==
    /\ op = "explain_match"
    /\ Failing # {}
    /\ Len(actual) > Len(matchers)
    /\ result[1] = "where "

\* C6: describe lists every predicate's positive description once, in list
\* order, numbered from zero; the polarity changes only the leading verb.
C6_DescribeText ==
    op = "describe" =>
      result = <<(IF polarity = "Matches" THEN "has" ELSE "doesn't have"),
                 " elements satisfying respectively:\n">>
               \o NumberedFrom(1)

C6_Witness ==
    /\ op = "describe"
    /\ polarity = "DoesNotMatch"
    /\ Len(matchers) = 2
    /\ result[1] = "doesn't have"

\* C7: matches and explain_match agree: the explanation is "which matches all
\* elements" iff matches returns Matches, and one of the non-match forms iff
\* it returns DoesNotMatch.
C7_MatchesExplainAgree ==
    /\ op = "explain_match" =>
         /\ result = AllElementsText <=> matches(matchers, actual).result = "Matches"
         /\ result[1] \in {"which has size ", "where ", "where:\n"}
              <=> matches(matchers, actual).result = "DoesNotMatch"
    /\ op = "matches" =>
         /\ result = "Matches"
              <=> explain_match(matchers, actual).result = AllElementsText
         /\ result = "DoesNotMatch"
              <=> explain_match(matchers, actual).result[1]
                     \in {"which has size ", "where ", "where:\n"}

C7_Witness ==
    /\ op = "explain_match"
    /\ actual = <<>>
    /\ matchers = <<>>
    /\ result = AllElementsText

\* C8: matches evaluates the predicates in ascending order and stops at the
\* first failing one without consulting the size-mismatch flag; the flag is
\* consulted only after all overlapping pairs were evaluated and satisfied.
C8_ShortCircuit ==
    op = "matches" =>
      /\ \A j \in 1..Len(yielded) :
            j <= Overlap /\ yielded[j] = <<actual[j], matchers[j]>>
      /\ Failing # {} =>
            /\ Len(yielded) = Ascending(Failing)[1]
            /\ ~flag_read
            /\ result = "DoesNotMatch"
      /\ flag_read <=> (Failing = {} /\ Len(yielded) = Overlap)

C8_Witness ==
    /\ op = "matches"
    /\ Failing = {1, 2}
    /\ Len(actual) # Len(matchers)
    /\ Len(yielded) = 1
    /\ ~flag_read

\* C9: driven to exhaustion, the walker yields exactly the pairs (O[i], P[i])
\* for i < min(n, m), in ascending order, and its size-mismatch flag is then
\* true iff n # m.
Exhausted == op = "explain_match" \/ (op = "matches" /\ flag_read)

C9_WalkerPairs ==
    Exhausted =>
      /\ Len(yielded) = Overlap
      /\ \A j \in 1..Len(yielded) : yielded[j] = <<actual[j], matchers[j]>>
      /\ has_size_mismatch(zipped_iterator) <=> Len(actual) # Len(matchers)

C9_Witness ==
    /\ op = "explain_match"
    /\ Len(yielded) = 2
    /\ Len(matchers) = 3
    /\ has_size_mismatch(zipped_iterator)

\* C10: no call changes the predicate list, and a call with the same method
\* and argument as the remembered first call returns the same result,
\* whatever calls came in between.
C10_CallsIndependent ==
    [][/\ matchers' = matchers
       /\ (op' # "idle" /\ memo.op = op' /\ memo.actual = actual'
             /\ memo.polarity = polarity')
            => result' = memo.result]_vars

C10_Witness ==
    /\ memo.op = "matches"
    /\ op = "matches"
    /\ memo.actual = actual
    /\ Len(actual) = 1
    /\ Len(matchers) = 1
    /\ memo.later = CallsSeen
    /\ result = "DoesNotMatch"

====
